---- MODULE Spec2Model ----
(***************************************************************************)
(* A model of bot.py: the Telegram front-end that relays text messages and *)
(* uploaded spreadsheets to a completion API, keeping one conversation     *)
(* history per user and falling back over a fixed list of models.          *)
(*                                                                         *)
(* Handlers are coroutines.  A handler runs without interruption between   *)
(* two awaits on the messaging platform (get_file, download, reply_text);  *)
(* each such await is a value of pc.  The completion request itself        *)
(* (client.chat.completions.create) is a synchronous call, so the whole    *)
(* loop of call_ai_with_fallback runs with the event loop blocked; the     *)
(* model still shows one step per attempt, and no other handler steps      *)
(* while a task is at pc = "attempt".                                      *)
(*                                                                         *)
(* Environment assumptions: calls to the messaging platform (get_file,     *)
(* download_as_bytearray, reply_text) succeed; a completion request        *)
(* may fail or succeed at every attempt; a supported file may or may not   *)
(* be readable by pandas.  User-visible strings are written in ASCII (the  *)
(* originals are Russian); their structure (prefix, description, suffix)   *)
(* is the source's.                                                        *)
(*                                                                         *)
(* Three specifications: Spec is the program as main() starts it, from the *)
(* secrets in the environment on, handling one update at a time;           *)
(* SpecChunker is the chunk loop of the two message handlers over replies  *)
(* of all the lengths that matter; SpecConc is the handlers of one user    *)
(* under concurrent updates, two handlers in flight.                       *)
(***************************************************************************)
EXTENDS Integers, Sequences, FiniteSets, TLC

(* ---------------------------------------------------------------- bounds *)
\* user records that all histories hold together
MaxUserRecords == 2
\* handler invocations that can exist at once (slots of the task table)
MaxTasks == 2

Users == {"u1", "u2"}
Texts == {"q1", "q2"}
FileNames == {"data.xlsx", "data.txt"}
Errors == {"timeout", "rate limit"}

(* ------------------------------------------------------------- constants *)
MODELS ==
  << "meta-llama/llama-2-70b-chat",
     "meta-llama/llama-3-70b-instruct",
     "mistralai/mistral-7b-instruct",
     "meta-llama/llama-2-13b-chat",
     "nousresearch/nous-hermes-2-mixtral-8x7b-dpo" >>

\* len(MODELS)
NumModels == Len(MODELS)

\* MODELS[i] with Python's 0-based index
ModelAt(i) == MODELS[i + 1]

\* the size of one outbound chunk of a reply
ChunkSize == 4096

RECURSIVE Doubled(_, _)
Doubled(s, k) == IF k = 0 THEN s ELSE Doubled(s \o s, k - 1)

\* a reply one character longer than a chunk
LongReply == Doubled("ab", 11) \o "!"

\* what the completion API can answer
Replies == {"ok", LongReply}

\* replies for the chunk loop: empty, short, exactly one chunk, one character
\* more, exactly two chunks, one character more
FullReply == Doubled("ab", 11)
TwoFullReply == Doubled("ab", 11) \o Doubled("cd", 11)
ChunkReplies == {"", "ok", FullReply, LongReply, TwoFullReply, TwoFullReply \o "#"}

Tasks == 1 .. MaxTasks

VARIABLES
  current_model_index,  \* the global cursor into MODELS
  user_conversations,   \* dict: user id -> list of {role, content}
  tasks,                \* the handler invocations, by slot
  lastFailed,           \* console: position of the model of the last "error with model" line, -1 if none
  lastCall,             \* the most recent finished call of call_ai_with_fallback
  env,                  \* the environment: the two secrets
  app                   \* main(): where it is, and the application it built

vars == <<current_model_index, user_conversations, tasks, lastFailed, lastCall, env, app>>

\* what main() and the application contribute; the handlers leave it alone
startup == <<env, app>>

(* ---------------------------------------------------------- pure helpers *)
Min(a, b) == IF a < b THEN a ELSE b

\* str.endswith
EndsWith(s, suffix) ==
  /\ Len(s) >= Len(suffix)
  /\ SubSeq(s, Len(s) - Len(suffix) + 1, Len(s)) = suffix

\* `sub in s` for strings
Contains(s, sub) ==
  \E k \in 1 .. (Len(s) - Len(sub) + 1) : SubSeq(s, k, k + Len(sub) - 1) = sub

\* s[i:i+n] with Python's 0-based, clipped slice
\* variant: the slice takes one character more, s[i:i+n+1]
SliceOneMore(s, i, n) == SubSeq(s, i + 1, Min(i + n + 1, Len(s)))

\* s[i:i+n]
Slice(s, i, n) == SubSeq(s, i + 1, Min(i + n, Len(s)))

RECURSIVE JoinBullets(_)
JoinBullets(ms) ==
  IF ms = <<>> THEN ""
  ELSE "* " \o Head(ms) \o (IF Len(ms) > 1 THEN "\n" ELSE "") \o JoinBullets(Tail(ms))

Record(role, content) == [role |-> role, content |-> content]

Msg(kind, text) == [kind |-> kind, text |-> text]

\* the user's list of records, empty when the key is absent
Hist(u) == IF u \in DOMAIN user_conversations THEN user_conversations[u] ELSE <<>>

\* user_conversations[u] = h, creating the key when needed
\* variant: the list is stored under every key
SetHistShared(u, h) == [v \in (DOMAIN user_conversations) \cup {u} |-> h]

SetHist(u, h) ==
  [v \in (DOMAIN user_conversations) \cup {u} |-> IF v = u THEN h ELSE user_conversations[v]]

\* if user_id not in user_conversations: user_conversations[user_id] = []
EnsureHist(u) == SetHist(u, Hist(u))

(* ---------------------------------------------------- user-visible texts *)
GreetingText == "Hello! I am your marketplace analyst."
TextNotice == "Looking for an answer..."
FileNotice == "Analysing the data... (this may take a while)"
UnsupportedText == "Only Excel (.xlsx, .xls) and CSV files are supported"
ResetText == "Dialogue history cleared. Ready for a new analysis!"
ModelsText == "Available models:\n\n" \o JoinBullets(MODELS)

\* variant: the aggregate message without the underlying description
AggregateErrorNoDetail(e) == "All models are unavailable."

\* the message of the exception raised when every model failed
AggregateError(e) == "All models are unavailable. Last error: " \o e

\* variant: the reply to the user leaves the description out
TextErrorTextNoDesc(desc) == "Error\nCheck OPENROUTER_API_KEY in the .env file"

TextErrorText(desc) == "Error: " \o desc \o "\nCheck OPENROUTER_API_KEY in the .env file"
FileErrorText(desc) == "Error while processing the file: " \o desc

\* the system instruction (its text is the analyst prompt)
SYSTEM_PROMPT == "You are a professional marketplace analyst..."

\* the content None, and the description of the TypeError of len(None)
NoneContent == "None"
NoneLenError == "object of type 'NoneType' has no len()"

\* the description of the exception pandas raises on an unreadable file
ParseError == "cannot parse file"

\* data_preview, as far as it depends on the upload
Preview(filename) == "File: " \o filename \o "\n\nData:\n..."

FileUserContent(filename) == "Here is my marketplace data:\n\n" \o Preview(filename)

(* ------------------------------------------------------------------ tasks *)
\* no call of call_ai_with_fallback has finished yet
NoCall == [ok |-> FALSE, last |-> -1]

\* a finished call: whether it returned a reply, and the position in MODELS of
\* the model of its last attempt
CallLog(ok, last) == [ok |-> ok, last |-> last]

IdleTask ==
  [pc |-> "idle", ev |-> "none", user |-> "", arg |-> "",
   start |-> -1, attempt |-> 0, tried |-> <<>>, err |-> "",
   result |-> "none", reply |-> "", used |-> "", i |-> 0,
   request |-> <<>>, sent |-> <<>>, histBefore |-> <<>>, prev |-> "other",
   cleared |-> FALSE]

\* a handler that returned: its locals are gone; with one update at a time
\* the slot remembers which delivery it was and whether its completion call
\* returned or raised, for the next delivery to be compared with
Finished(task) ==
  IF app.concurrent_updates THEN IdleTask ELSE
  [IdleTask EXCEPT !.pc = "done", !.ev = task.ev, !.user = task.user, !.arg = task.arg,
                   !.result = task.result]

InFlight(t) == tasks[t].pc \notin {"idle", "done"}

\* the event loop is not inside a synchronous completion call
LoopFree == \A t \in Tasks : tasks[t].pc # "attempt"

\* the slot a new invocation takes: the lowest one not in flight
FreeSlot(t) == ~InFlight(t) /\ \A s \in Tasks : s < t => InFlight(s)

\* Application.builder().token(token).build(): concurrent_updates is off, an
\* update is handled to completion before the next one is taken
Sequential == \A t \in Tasks : ~InFlight(t)

\* os.getenv: the value of a variable, NoValue when it is not set
NoValue == "<None>"
Secrets == {NoValue, "", "secret"}

\* the truth value of a string or None
Truthy(v) == v # NoValue /\ v # ""

\* the handlers main() registers, by the kind of update they take
AllHandlers == {"start", "reset", "models", "file", "text"}

\* main() has not run; nothing is built
NotStarted == [pc |-> "main", handlers |-> {}, concurrent_updates |-> FALSE, error |-> ""]

\* with concurrent updates a handler is entered while another one is
\* suspended at an await; the model lets two handlers be in flight together
Overlapping == LoopFree /\ Cardinality({s \in Tasks : InFlight(s)}) < 2

\* an update of the given kind is taken from the queue and its handler is
\* entered in slot t: the application polls, a handler is registered for the
\* kind, and the updates before it are done with (or, with concurrent
\* updates, suspended)
Dispatch(t, kind) ==
  /\ app.pc = "polling" /\ kind \in app.handlers
  /\ IF app.concurrent_updates THEN Overlapping ELSE Sequential
  /\ FreeSlot(t)

\* the tasks after user u's list was replaced by a new, empty one while slot
\* t enters the handler that did it: the handlers of u that are in flight
\* are noted as having lost the list they were working on
Entered(t, u, new) ==
  [s \in Tasks |->
     IF s = t THEN new
     ELSE IF InFlight(s) /\ tasks[s].user = u THEN [tasks[s] EXCEPT !.cleared = TRUE]
     ELSE tasks[s]]

\* the same event as the delivery that was completed just before, which
\* (for a text or a file) got a reply
Redelivered(t, ev, u, arg) ==
  /\ tasks[t].pc = "done"
  /\ tasks[t].ev = ev /\ tasks[t].user = u /\ tasks[t].arg = arg
  /\ ev \in {"text", "file"} => tasks[t].result = "ok"

\* the delivery completed just before was a /reset of the same user
AfterReset(t, u) ==
  tasks[t].pc = "done" /\ tasks[t].ev = "reset" /\ tasks[t].user = u

\* a handler is entered; besides its locals the slot notes, with one update
\* at a time, the history the handler found and how the delivery relates to
\* the one just before it
NewTask(t, ev, u, arg, pc, msgs) ==
  [IdleTask EXCEPT !.pc = pc, !.ev = ev, !.user = u, !.arg = arg,
                   !.sent = msgs,
                   !.histBefore = IF /\ ~app.concurrent_updates
                                       /\ (ev \in {"text", "file"} \/ Redelivered(t, ev, u, arg))
                                    THEN Hist(u) ELSE <<>>,
                   !.prev = IF Redelivered(t, ev, u, arg) THEN "same"
                            ELSE IF AfterReset(t, u) THEN "reset" ELSE "other"]

Init ==
  /\ current_model_index = 0
  /\ user_conversations = << >>
  /\ tasks = [t \in Tasks |-> IdleTask]
  /\ lastFailed = -1
  /\ lastCall = NoCall
  /\ env \in [TELEGRAM_BOT_TOKEN : Secrets, OPENROUTER_API_KEY : Secrets]
  /\ app = NotStarted

(* ------------------------------------------------------------ /start *)
\* variant: the command only makes sure that a history exists
StartKeepsHistory(t, u) ==
  /\ Dispatch(t, "start")
  /\ user_conversations' = EnsureHist(u)
  /\ tasks' = [tasks EXCEPT ![t] =
       NewTask(t, "start", u, "", "await_greeting", <<Msg("greeting", GreetingText)>>)]
  /\ UNCHANGED <<current_model_index, lastFailed, lastCall>>
  /\ UNCHANGED startup

Start(t, u) ==
  /\ Dispatch(t, "start")
  /\ user_conversations' = SetHist(u, <<>>)
  /\ tasks' = Entered(t, u,
       NewTask(t, "start", u, "", "await_greeting", <<Msg("greeting", GreetingText)>>))
  /\ UNCHANGED <<current_model_index, lastFailed, lastCall>>
  /\ UNCHANGED startup

(* ------------------------------------------------------------ /reset *)
\* variant: the command also puts the model cursor back to the first model
ResetAlsoCursor(t, u) ==
  /\ Dispatch(t, "reset")
  /\ user_conversations' = SetHist(u, <<>>)
  /\ current_model_index' = 0
  /\ tasks' = Entered(t, u,
       NewTask(t, "reset", u, "", "await_confirm", <<Msg("reset", ResetText)>>))
  /\ UNCHANGED <<lastFailed, lastCall>>
  /\ UNCHANGED startup

\* variant: the command removes the user's key instead of emptying the list
ResetRemovesKey(t, u) ==
  /\ Dispatch(t, "reset")
  /\ user_conversations' = [v \in (DOMAIN user_conversations) \ {u} |-> user_conversations[v]]
  /\ tasks' = [tasks EXCEPT ![t] =
       NewTask(t, "reset", u, "", "await_confirm", <<Msg("reset", ResetText)>>)]
  /\ UNCHANGED <<current_model_index, lastFailed, lastCall>>
  /\ UNCHANGED startup

Reset(t, u) ==
  /\ Dispatch(t, "reset")
  /\ user_conversations' = SetHist(u, <<>>)
  /\ tasks' = Entered(t, u,
       NewTask(t, "reset", u, "", "await_confirm", <<Msg("reset", ResetText)>>))
  /\ UNCHANGED <<current_model_index, lastFailed, lastCall>>
  /\ UNCHANGED startup

(* ----------------------------------------------------------- /models *)
\* variant: the command also empties the user's list
ModelsAlsoClears(t, u) ==
  /\ Dispatch(t, "models")
  /\ user_conversations' = SetHist(u, <<>>)
  /\ tasks' = [tasks EXCEPT ![t] =
       NewTask(t, "models", u, "", "await_list", <<Msg("models", ModelsText)>>)]
  /\ UNCHANGED <<current_model_index, lastFailed, lastCall>>
  /\ UNCHANGED startup

Models(t, u) ==
  /\ Dispatch(t, "models")
  /\ tasks' = [tasks EXCEPT ![t] =
       NewTask(t, "models", u, "", "await_list", <<Msg("models", ModelsText)>>)]
  /\ UNCHANGED <<current_model_index, user_conversations, lastFailed, lastCall>>
  /\ UNCHANGED startup

\* a handler whose last await returned: it returns to the dispatcher
HandlerReturn(t) ==
  /\ LoopFree
  /\ tasks[t].pc \in {"await_greeting", "await_confirm", "await_list",
                      "await_unsupported", "await_error"}
  /\ tasks' = [tasks EXCEPT ![t] = Finished(tasks[t])]
  /\ UNCHANGED <<current_model_index, user_conversations, lastFailed, lastCall>>
  /\ UNCHANGED startup

(* ------------------------------------------- call_ai_with_fallback *)
\* variants of the cursor arithmetic: a wrap one position early, no advance
NextIndexShortWrap(i) == (i + 1) % (NumModels - 1)
NextIndexStuck(i) == i

\* variant: the cursor is advanced without the wrap
NextIndexNoWrap(i) == i + 1

\* (current_model_index + 1) % len(MODELS)
NextIndex(i) == (i + 1) % NumModels

\* range(len(MODELS))
AttemptRange == NumModels

\* variant: the test for the last attempt is off by one
LastAttemptOneLate(attempt) == attempt = NumModels

\* attempt == len(MODELS) - 1
LastAttempt(attempt) == attempt = NumModels - 1

\* the call is entered: the loop starts at attempt 0 with the cursor as it is
EnterCall(task) ==
  [task EXCEPT !.pc = "attempt", !.attempt = 0, !.start = current_model_index,
               !.tried = <<>>]

\* the handler's except clause: one message with the description, then return
Caught(task, desc) ==
  [task EXCEPT !.pc = "await_error",
               !.sent = Append(@, Msg("error",
                          IF task.ev = "file" THEN FileErrorText(desc) ELSE TextErrorText(desc)))]

\* the statements of the handler that follow a returned call, after the
\* assistant record is appended: the first chunk, if any, is sent
FirstChunk(task, r, m) ==
  IF ~(0 < Len(r)) THEN Finished([task EXCEPT !.result = "ok"]) ELSE
  [task EXCEPT !.result = "ok", !.reply = r, !.used = m, !.i = 0,
               !.pc = "await_chunk",
               !.sent = Append(@, Msg("chunk", Slice(r, 0, ChunkSize)))]

\* variant: the system instruction is put after the conversation
WithSystemLast(messages) == Append(messages, Record("system", SYSTEM_PROMPT))

\* messages_with_system = [{"role": "system", "content": SYSTEM_PROMPT}] + messages
WithSystem(messages) == <<Record("system", SYSTEM_PROMPT)>> \o messages

\* the attempt of the task on the given model: the request that is sent holds
\* the system instruction and the list the handler passed, which is the
\* user's list in user_conversations
Called(task, model) ==
  [task EXCEPT !.tried = Append(@, model), !.request = WithSystem(Hist(task.user))]

\* variant: the model is looked up by the loop index, not by the cursor
CurrentModelByAttempt(task) == ModelAt(task.attempt)

\* model = MODELS[current_model_index]
CurrentModel(task) == ModelAt(current_model_index)

\* variant: a success also moves the cursor on to the next model
AttemptSucceedAdvances(t, r) ==
  LET task == tasks[t]
      model == CurrentModel(task)
      called == Called(task, model)
  IN /\ task.pc = "attempt"
     /\ user_conversations' =
          SetHist(task.user, Append(Hist(task.user), Record("assistant", r)))
     /\ tasks' = [tasks EXCEPT ![t] = FirstChunk(called, r, model)]
     /\ lastCall' = CallLog(TRUE, current_model_index)
     /\ current_model_index' = NextIndex(current_model_index)
     /\ UNCHANGED lastFailed
     /\ UNCHANGED startup

\* one attempt that the API answers with the reply r: the call returns
\* (r, model) and the handler goes on
AttemptSucceed(t, r) ==
  LET task == tasks[t]
      model == CurrentModel(task)
      called == Called(task, model)
  IN /\ task.pc = "attempt"
     /\ user_conversations' =
          SetHist(task.user, Append(Hist(task.user), Record("assistant", r)))
     /\ tasks' = [tasks EXCEPT ![t] = FirstChunk(called, r, model)]
     /\ lastCall' = CallLog(TRUE, current_model_index)
     /\ UNCHANGED <<current_model_index, lastFailed>>
     /\ UNCHANGED startup

\* one attempt that raises an exception whose description is e: the cursor
\* advances; the last attempt raises the aggregate exception, which the
\* handler catches; a loop that ran out without raising returns (None, None),
\* which the handler stores and then fails on, at len(None)
AttemptFail(t, e) ==
  LET task == tasks[t]
      model == CurrentModel(task)
      called == Called(task, model)
  IN /\ task.pc = "attempt"
     /\ lastFailed' = current_model_index
     /\ current_model_index' = NextIndex(current_model_index)
     /\ IF LastAttempt(task.attempt)
          THEN /\ tasks' = [tasks EXCEPT ![t] =
                    Caught([called EXCEPT !.result = "raised", !.err = e], AggregateError(e))]
               /\ lastCall' = CallLog(FALSE, current_model_index)
               /\ UNCHANGED user_conversations
          ELSE IF task.attempt + 1 < AttemptRange
          THEN /\ tasks' = [tasks EXCEPT ![t] = [called EXCEPT !.attempt = @ + 1]]
               /\ UNCHANGED <<lastCall, user_conversations>>
          ELSE /\ tasks' = [tasks EXCEPT ![t] =
                    Caught([called EXCEPT !.result = "nonepair"], NoneLenError)]
               /\ lastCall' = CallLog(FALSE, current_model_index)
               /\ user_conversations' =
                    SetHist(task.user, Append(Hist(task.user), Record("assistant", NoneContent)))
     /\ UNCHANGED startup

\* the await of a chunk returned: the next chunk is sent, or the handler ends
ChunkSent(t) ==
  LET task == tasks[t]
      j == task.i + ChunkSize
  IN /\ LoopFree
     /\ task.pc = "await_chunk"
     /\ tasks' = [tasks EXCEPT ![t] =
          IF j < Len(task.reply)
            THEN [task EXCEPT !.i = j,
                              !.sent = Append(@, Msg("chunk", Slice(task.reply, j, ChunkSize)))]
            ELSE Finished(task)]
     /\ UNCHANGED <<current_model_index, user_conversations, lastFailed, lastCall>>
     /\ UNCHANGED startup

(* ------------------------------------------------------- handle_text *)
\* user records held by all histories together
UserRecords ==
  LET Count(h) == Cardinality({k \in 1 .. Len(h) : h[k].role = "user"})
      RECURSIVE Sum(_)
      Sum(S) == IF S = {} THEN 0
                ELSE LET u == CHOOSE v \in S : TRUE
                     IN Count(user_conversations[u]) + Sum(S \ {u})
  IN Sum(DOMAIN user_conversations)

\* the model takes a text or file event only while the histories hold fewer
\* than MaxUserRecords user records
Room == UserRecords < MaxUserRecords

\* variant: the new user record is put in front of the history
TextReceivedPrepends(t, u, txt) ==
  /\ Dispatch(t, "text") /\ Room
  /\ user_conversations' = SetHist(u, <<Record("user", txt)>> \o Hist(u))
  /\ tasks' = [tasks EXCEPT ![t] =
       NewTask(t, "text", u, txt, "await_notice", <<Msg("notice", TextNotice)>>)]
  /\ UNCHANGED <<current_model_index, lastFailed, lastCall>>
  /\ UNCHANGED startup

\* variant: the handler does not store the user's message
TextReceivedNoAppend(t, u, txt) ==
  /\ Dispatch(t, "text") /\ Room
  /\ user_conversations' = EnsureHist(u)
  /\ tasks' = [tasks EXCEPT ![t] =
       NewTask(t, "text", u, txt, "await_notice", <<Msg("notice", TextNotice)>>)]
  /\ UNCHANGED <<current_model_index, lastFailed, lastCall>>
  /\ UNCHANGED startup

\* variant: the handler starts a new list with the user's message
TextReceivedFresh(t, u, txt) ==
  /\ Dispatch(t, "text") /\ Room
  /\ user_conversations' = SetHist(u, <<Record("user", txt)>>)
  /\ tasks' = [tasks EXCEPT ![t] =
       NewTask(t, "text", u, txt, "await_notice", <<Msg("notice", TextNotice)>>)]
  /\ UNCHANGED <<current_model_index, lastFailed, lastCall>>
  /\ UNCHANGED startup

TextReceived(t, u, txt) ==
  /\ Dispatch(t, "text") /\ Room
  /\ user_conversations' = SetHist(u, Append(Hist(u), Record("user", txt)))
  /\ tasks' = [tasks EXCEPT ![t] =
       NewTask(t, "text", u, txt, "await_notice", <<Msg("notice", TextNotice)>>)]
  /\ UNCHANGED <<current_model_index, lastFailed, lastCall>>
  /\ UNCHANGED startup

\* the await of the notice returned: the handler calls call_ai_with_fallback
TextResume(t) ==
  /\ LoopFree
  /\ tasks[t].pc = "await_notice" /\ tasks[t].ev = "text"
  /\ tasks' = [tasks EXCEPT ![t] = EnterCall(tasks[t])]
  /\ UNCHANGED <<current_model_index, user_conversations, lastFailed, lastCall>>
  /\ UNCHANGED startup

(* ------------------------------------------------------- handle_file *)
\* variant: plain text files are let through as well
SupportedAlsoTxt(filename) ==
  \/ EndsWith(filename, ".xlsx") \/ EndsWith(filename, ".xls")
  \/ EndsWith(filename, ".csv") \/ EndsWith(filename, ".txt")

Supported(filename) ==
  EndsWith(filename, ".xlsx") \/ EndsWith(filename, ".xls") \/ EndsWith(filename, ".csv")

FileReceived(t, u, f) ==
  /\ Dispatch(t, "file") /\ Room
  /\ tasks' = [tasks EXCEPT ![t] = NewTask(t, "file", u, f, "await_get_file", <<>>)]
  /\ user_conversations' = EnsureHist(u)
  /\ UNCHANGED <<current_model_index, lastFailed, lastCall>>
  /\ UNCHANGED startup

\* get_file() returned: the download is awaited
FileGot(t) ==
  /\ LoopFree
  /\ tasks[t].pc = "await_get_file"
  /\ tasks' = [tasks EXCEPT ![t].pc = "await_download"]
  /\ UNCHANGED <<current_model_index, user_conversations, lastFailed, lastCall>>
  /\ UNCHANGED startup

\* download_as_bytearray() returned: the suffix is checked, the file is read
\* (parses: pandas can read the bytes) and previewed, and the in-progress
\* notice is sent
FileDownloaded(t, parses) ==
  LET task == tasks[t]
  IN /\ LoopFree
     /\ task.pc = "await_download"
     /\ tasks' = [tasks EXCEPT ![t] =
          IF ~Supported(task.arg)
            THEN [task EXCEPT !.pc = "await_unsupported",
                              !.sent = Append(@, Msg("unsupported", UnsupportedText))]
          ELSE IF ~parses
            THEN Caught(task, ParseError)
          ELSE [task EXCEPT !.pc = "await_notice",
                            !.sent = Append(@, Msg("notice", FileNotice))]]
     /\ UNCHANGED <<current_model_index, user_conversations, lastFailed, lastCall>>
     /\ UNCHANGED startup

\* variant: the user record with the preview is not appended
FileResumeNoAppend(t) ==
  LET task == tasks[t]
  IN /\ LoopFree
     /\ task.pc = "await_notice" /\ task.ev = "file"
     /\ tasks' = [tasks EXCEPT ![t] = EnterCall(task)]
     /\ UNCHANGED <<current_model_index, user_conversations, lastFailed, lastCall>>
     /\ UNCHANGED startup

\* the await of the notice returned: the user record with the preview is
\* appended and the handler calls call_ai_with_fallback
FileResume(t) ==
  LET task == tasks[t]
  IN /\ LoopFree
     /\ task.pc = "await_notice" /\ task.ev = "file"
     /\ user_conversations' =
          SetHist(task.user, Append(Hist(task.user), Record("user", FileUserContent(task.arg))))
     /\ tasks' = [tasks EXCEPT ![t] = EnterCall(task)]
     /\ UNCHANGED <<current_model_index, lastFailed, lastCall>>
     /\ UNCHANGED startup

(* --------------------------------------------------------------- main *)
\* variant: only the platform token is looked at
SecretsPresentTokenOnly == Truthy(env.TELEGRAM_BOT_TOKEN)

\* neither "if not token" nor "if not api_key" raises
SecretsPresent == Truthy(env.TELEGRAM_BOT_TOKEN) /\ Truthy(env.OPENROUTER_API_KEY)

\* main() up to the application it builds: a secret that is not set or empty
\* raises ValueError, which ends the process; otherwise the application is
\* built, with the builder's default of one update at a time
Main ==
  /\ app.pc = "main"
  /\ app' = IF SecretsPresent
              THEN [app EXCEPT !.pc = "built", !.concurrent_updates = FALSE]
              ELSE [app EXCEPT !.pc = "failed",
                               !.error = IF ~Truthy(env.TELEGRAM_BOT_TOKEN)
                                           THEN "TELEGRAM_BOT_TOKEN is not set"
                                           ELSE "OPENROUTER_API_KEY is not set"]
  /\ UNCHANGED <<current_model_index, user_conversations, tasks, lastFailed, lastCall, env>>

\* the five add_handler calls
AddHandlers ==
  /\ app.pc = "built"
  /\ app' = [app EXCEPT !.pc = "registered", !.handlers = AllHandlers]
  /\ UNCHANGED <<current_model_index, user_conversations, tasks, lastFailed, lastCall, env>>

\* application.run_polling(): updates are fetched and dispatched from now on
RunPolling ==
  /\ app.pc = "registered"
  /\ app' = [app EXCEPT !.pc = "polling"]
  /\ UNCHANGED <<current_model_index, user_conversations, tasks, lastFailed, lastCall, env>>

\* the steps of the handlers
Handle ==
  \/ \E t \in Tasks, u \in Users : Start(t, u)
  \/ \E t \in Tasks, u \in Users : Reset(t, u)
  \/ \E t \in Tasks, u \in Users : Models(t, u)
  \/ \E t \in Tasks, u \in Users, txt \in Texts : TextReceived(t, u, txt)
  \/ \E t \in Tasks : TextResume(t)
  \/ \E t \in Tasks, u \in Users, f \in FileNames : FileReceived(t, u, f)
  \/ \E t \in Tasks : FileGot(t)
  \/ \E t \in Tasks, parses \in BOOLEAN : FileDownloaded(t, parses)
  \/ \E t \in Tasks : FileResume(t)
  \/ \E t \in Tasks, r \in Replies : AttemptSucceed(t, r)
  \/ \E t \in Tasks, e \in Errors : AttemptFail(t, e)
  \/ \E t \in Tasks : ChunkSent(t)
  \/ \E t \in Tasks : HandlerReturn(t)

Next == Main \/ AddHandlers \/ RunPolling \/ Handle

Spec == Init /\ [][Next]_vars

(* ------------------------------------------------- the chunk loop alone *)
\* the application polls, both secrets being set
Polling ==
  [pc |-> "polling", handlers |-> AllHandlers, concurrent_updates |-> FALSE, error |-> ""]

InitChunker ==
  /\ current_model_index = 0
  /\ user_conversations = << >>
  /\ tasks = [t \in Tasks |-> IdleTask]
  /\ lastFailed = -1
  /\ lastCall = NoCall
  /\ env = [TELEGRAM_BOT_TOKEN |-> "secret", OPENROUTER_API_KEY |-> "secret"]
  /\ app = Polling

\* questions and readable files whose completion call is answered at once,
\* with replies of all the lengths of interest
NextChunker ==
  \/ \E t \in Tasks, u \in Users : TextReceived(t, u, "q1")
  \/ \E t \in Tasks : TextResume(t)
  \/ \E t \in Tasks, u \in Users : FileReceived(t, u, "data.xlsx")
  \/ \E t \in Tasks : FileGot(t)
  \/ \E t \in Tasks : FileDownloaded(t, TRUE)
  \/ \E t \in Tasks : FileResume(t)
  \/ \E t \in Tasks, r \in ChunkReplies : AttemptSucceed(t, r)
  \/ \E t \in Tasks : ChunkSent(t)

SpecChunker == InitChunker /\ [][NextChunker]_vars

(* ------------------------------------------------- concurrent updates *)
\* the handlers under an application that takes the next update while
\* handlers are suspended at an await (concurrent_updates on): the scheduling
\* the interleaving claims are about
InitConc ==
  /\ current_model_index = 0
  /\ user_conversations = << >>
  /\ tasks = [t \in Tasks |-> IdleTask]
  /\ lastFailed = -1
  /\ lastCall = NoCall
  /\ env = [TELEGRAM_BOT_TOKEN |-> "secret", OPENROUTER_API_KEY |-> "secret"]
  /\ app = [Polling EXCEPT !.concurrent_updates = TRUE]

\* one user's questions, files and commands, answered at the first attempt
\* with a short reply
NextConc ==
  \/ \E t \in Tasks : Start(t, "u1")
  \/ \E t \in Tasks : Reset(t, "u1")
  \/ \E t \in Tasks : Models(t, "u1")
  \/ \E t \in Tasks, txt \in Texts : TextReceived(t, "u1", txt)
  \/ \E t \in Tasks : TextResume(t)
  \/ \E t \in Tasks : FileReceived(t, "u1", "data.xlsx")
  \/ \E t \in Tasks : FileGot(t)
  \/ \E t \in Tasks : FileDownloaded(t, TRUE)
  \/ \E t \in Tasks : FileResume(t)
  \/ \E t \in Tasks : AttemptSucceed(t, "ok")
  \/ \E t \in Tasks : ChunkSent(t)
  \/ \E t \in Tasks : HandlerReturn(t)

SpecConc == InitConc /\ [][NextConc]_vars

(* ================================================================ claims *)
\* the task's call made its attempts on the models at start, start + 1, ...
\* in cursor order, wrapping
InCursorOrder(task) ==
  \A j \in 1 .. Len(task.tried) : task.tried[j] = ModelAt((task.start + j - 1) % NumModels)

\* C1: a call that starts with the cursor at s, sees K < N failures and then a
\* success has attempted exactly K + 1 models in cursor order with wrapping,
\* returns a reply together with MODELS[(s + K) mod N], and leaves the cursor
\* at (s + K) mod N.  (await_chunk is the state the successful attempt leaves.)
C1_SuccessAfterKFailures ==
  \A t \in Tasks :
    tasks[t].pc = "await_chunk" =>
      LET s == tasks[t].start
          K == tasks[t].attempt
      IN /\ K \in 0 .. (NumModels - 1)
         /\ Len(tasks[t].tried) = K + 1
         /\ InCursorOrder(tasks[t])
         /\ tasks[t].result = "ok"
         /\ tasks[t].reply \in Replies
         /\ tasks[t].used = ModelAt((s + K) % NumModels)
         /\ current_model_index = (s + K) % NumModels

\* a call that started at the last-but-one position and wrapped: 3, 4, 0, 1
C1_Witness ==
  \E t \in Tasks :
    /\ tasks[t].pc = "await_chunk" /\ tasks[t].start = 3
    /\ tasks[t].attempt = 3 /\ Len(tasks[t].tried) = 4
    /\ tasks[t].used = ModelAt(1) /\ current_model_index = 1

\* the step in which task t makes the first attempt of a call
FirstAttempt(t) ==
  /\ tasks[t].pc = "attempt" /\ Len(tasks[t].tried) = 0
  /\ Len(tasks'[t].tried) = 1

\* C2 as stated: after a call that ended with a success on the model at
\* position (s + K) mod N, the next call makes its first attempt with the
\* model at position (s + K + 1) mod N.
C2_NextCallStartsAfterSuccess ==
  [][\A t \in Tasks :
       (FirstAttempt(t) /\ lastCall.ok) =>
         tasks'[t].tried[1] = ModelAt((lastCall.last + 1) % NumModels)]_vars

\* C2 as amended: after a call that ended with a success on the model at
\* position (s + K) mod N, the next call makes its first attempt with that
\* same model, at position (s + K) mod N.
C2_NextCallStartsAtSuccess ==
  [][\A t \in Tasks :
       (FirstAttempt(t) /\ lastCall.ok) =>
         tasks'[t].tried[1] = ModelAt(lastCall.last)]_vars

\* a call that follows a success at position 2 (so after failures) and whose
\* first attempt, on the model at position 2, has just failed
C2_Witness ==
  \E t \in Tasks :
    /\ tasks[t].pc = "attempt" /\ Len(tasks[t].tried) = 1
    /\ lastCall.ok /\ lastCall.last = 2
    /\ tasks[t].start = 2 /\ tasks[t].tried[1] = ModelAt(2)

\* C3: if all N models fail, the call makes exactly N attempts and then
\* raises: it returns neither a reply nor (None, None), the last attempt is
\* the one on the model at position (s + N - 1) mod N, and the aggregate
\* error carries the description of that attempt's error.
C3_AllModelsFail ==
  \A t \in Tasks :
    /\ Len(tasks[t].tried) <= NumModels
    /\ tasks[t].result # "nonepair"
    /\ (Len(tasks[t].tried) = NumModels /\ tasks[t].result # "ok") =>
         /\ tasks[t].result = "raised"
         /\ tasks[t].pc = "await_error"
         /\ InCursorOrder(tasks[t])
         /\ tasks[t].tried[NumModels] = ModelAt((tasks[t].start + NumModels - 1) % NumModels)
         /\ lastFailed = (tasks[t].start + NumModels - 1) % NumModels
         /\ tasks[t].err \in Errors
         /\ LET m == tasks[t].sent[Len(tasks[t].sent)]
            IN /\ m.kind = "error"
               /\ Contains(m.text, "Last error: " \o tasks[t].err)

\* a call that started at position 2 and failed five times, the last time
\* with a rate limit
C3_Witness ==
  \E t \in Tasks :
    /\ tasks[t].result = "raised" /\ tasks[t].start = 2
    /\ Len(tasks[t].tried) = NumModels /\ tasks[t].err = "rate limit"

\* the step is a failed completion attempt of task t
FailedAttempt(t) ==
  /\ tasks[t].pc = "attempt"
  /\ tasks'[t].result # "ok"
  /\ tasks'[t].tried = Append(tasks[t].tried, ModelAt(current_model_index))
  /\ lastFailed' = current_model_index

\* C4: the model cursor changes only in a step in which a completion attempt
\* fails; a successful attempt and every handler step outside a failed
\* attempt leave it unchanged.
C4_CursorChangesOnlyOnFailure ==
  [][current_model_index' # current_model_index => \E t \in Tasks : FailedAttempt(t)]_vars

\* a file whose call succeeded at the second model: the failure moved the
\* cursor to 1, the success and the handler steps around it left it there
C4_Witness ==
  \E t \in Tasks :
    /\ tasks[t].pc = "await_chunk" /\ tasks[t].ev = "file"
    /\ tasks[t].start = 0 /\ Len(tasks[t].tried) = 2
    /\ current_model_index = 1

\* C5: the first model a call attempts is the one at position (f + 1) mod N,
\* f the position of the most recent failed attempt of any earlier call, or
\* the one at position 0 when no attempt has failed yet.
C5_StickyCursor ==
  [][\A t \in Tasks :
       FirstAttempt(t) =>
         tasks'[t].tried[1] =
           ModelAt(IF lastFailed = -1 THEN 0 ELSE (lastFailed + 1) % NumModels)]_vars

\* a call of the second user that starts at position 2, the last failure
\* (position 1) being that of an earlier call
C5_Witness ==
  \E t \in Tasks :
    /\ tasks[t].pc = "await_chunk" /\ tasks[t].user = "u2"
    /\ Len(tasks[t].tried) = 1 /\ tasks[t].tried[1] = ModelAt(2)
    /\ lastFailed = 1

\* C6: within one call no model identifier is attempted more than once.
C6_NoModelTwice ==
  \A t \in Tasks :
    \A j, k \in 1 .. Len(tasks[t].tried) : j # k => tasks[t].tried[j] # tasks[t].tried[k]

\* a call that attempted all five models, starting in the middle of the list
C6_Witness ==
  \E t \in Tasks :
    /\ Len(tasks[t].tried) = NumModels /\ tasks[t].start = 3
    /\ tasks[t].tried[1] = ModelAt(3) /\ tasks[t].tried[NumModels] = ModelAt(2)

\* the content of the user record a text or file delivery appends
UserContent(task) == IF task.ev = "file" THEN FileUserContent(task.arg) ELSE task.arg

\* the messages of the given kind among those a handler has sent
OfKind(msgs, kind) == {k \in 1 .. Len(msgs) : msgs[k].kind = kind}

\* C7: when every model fails during text-received or file-received, the
\* handler sends exactly one error message, which contains the failure
\* description, appends no assistant record, leaves the history at its value
\* before the handler plus the one user record, and then ends normally.
C7_ExhaustionReported ==
  \A t \in Tasks :
    tasks[t].result = "raised" =>
      /\ tasks[t].pc \in {"await_error", "done"}
      /\ tasks[t].pc = "await_error" =>
           /\ Cardinality(OfKind(tasks[t].sent, "error")) = 1
           /\ OfKind(tasks[t].sent, "chunk") = {}
           /\ LET m == tasks[t].sent[Len(tasks[t].sent)]
              IN /\ m.kind = "error"
                 /\ Contains(m.text, "All models are unavailable")
                 /\ Contains(m.text, tasks[t].err)
           /\ Hist(tasks[t].user) =
                Append(tasks[t].histBefore, Record("user", UserContent(tasks[t])))

\* a text whose five attempts failed, sent into a history that already held
\* an exchange
C7_Witness ==
  \E t \in Tasks :
    /\ tasks[t].result = "raised" /\ tasks[t].pc = "await_error"
    /\ tasks[t].ev = "text" /\ Len(tasks[t].histBefore) = 2
    /\ Len(Hist(tasks[t].user)) = 3

\* the effects of a delivery on the history are complete: the command has
\* cleared it, or the reply of the model has been appended
Applied(task) ==
  \/ task.ev = "start" /\ task.pc = "await_greeting"
  \/ task.ev = "reset" /\ task.pc = "await_confirm"
  \/ task.ev \in {"text", "file"} /\ task.pc = "await_chunk" /\ task.result = "ok"

\* C8 as stated: each of start, file-received, text-received and reset is
\* idempotent under redelivery: delivering the same event twice in a row
\* (the model replying successfully) leaves the user's history equal to the
\* history after delivering it once.
C8_AllIdempotent ==
  \A t \in Tasks :
    (tasks[t].prev = "same" /\ Applied(tasks[t])) =>
      Hist(tasks[t].user) = tasks[t].histBefore

\* C8 as amended: start and reset are idempotent under redelivery (the
\* history is empty after one delivery and after two); text-received and
\* file-received are not: the second delivery appends one more user record
\* and one more assistant record to the history the first one left.
C8_CommandsIdempotent ==
  \A t \in Tasks :
    (tasks[t].prev = "same" /\ Applied(tasks[t])) =>
      IF tasks[t].ev \in {"start", "reset"}
        THEN Hist(tasks[t].user) = tasks[t].histBefore /\ Hist(tasks[t].user) = <<>>
        ELSE Hist(tasks[t].user) =
               tasks[t].histBefore \o <<Record("user", UserContent(tasks[t])),
                                        Record("assistant", tasks[t].reply)>>

\* the same text delivered twice, answered both times
C8_Witness ==
  \E t \in Tasks :
    /\ tasks[t].prev = "same" /\ Applied(tasks[t]) /\ tasks[t].ev = "text"
    /\ Len(tasks[t].histBefore) = 2 /\ Len(Hist(tasks[t].user)) = 4

\* C9: /reset for u followed immediately by a text of u gives, when the
\* fallback caller is invoked and until a reply is appended, a history of
\* exactly one record, the user record of the new message; after /reset
\* alone the key u is present and maps to the empty history.
C9_ResetThenText ==
  \A t \in Tasks :
    /\ (tasks[t].ev = "text" /\ tasks[t].prev = "reset"
          /\ tasks[t].pc \in {"await_notice", "attempt"}) =>
         user_conversations[tasks[t].user] = <<Record("user", tasks[t].arg)>>
    /\ (tasks[t].ev = "reset" /\ tasks[t].pc \in {"await_confirm", "done"}) =>
         /\ tasks[t].user \in DOMAIN user_conversations
         /\ user_conversations[tasks[t].user] = <<>>

\* the call for a text that follows a /reset is under way, while the other
\* user still has a history
C9_Witness ==
  \E t \in Tasks :
    /\ tasks[t].ev = "text" /\ tasks[t].prev = "reset" /\ tasks[t].user = "u1"
    /\ tasks[t].pc = "attempt" /\ Len(tasks[t].tried) = 1 /\ tasks[t].arg = "q2"
    /\ Len(Hist("u2")) = 2

\* the file name ends in none of .xlsx, .xls, .csv
NoKnownSuffix(filename) ==
  /\ ~EndsWith(filename, ".xlsx")
  /\ ~EndsWith(filename, ".xls")
  /\ ~EndsWith(filename, ".csv")

\* C10: a file whose name ends in none of .xlsx, .xls, .csv gets the
\* unsupported-format message and nothing else: no completion attempt, no
\* error, and the records of the user's history are what they were.
C10_UnsupportedFile ==
  \A t \in Tasks :
    (tasks[t].ev = "file" /\ NoKnownSuffix(tasks[t].arg)) =>
      /\ tasks[t].pc \in {"await_get_file", "await_download", "await_unsupported", "done"}
      /\ tasks[t].tried = <<>> /\ tasks[t].start = -1 /\ tasks[t].result = "none"
      /\ tasks[t].pc # "done" => Hist(tasks[t].user) = tasks[t].histBefore
      /\ tasks[t].pc = "await_unsupported" =>
           tasks[t].sent = <<Msg("unsupported", UnsupportedText)>>

\* data.txt sent by a user who has a history
C10_Witness ==
  \E t \in Tasks :
    /\ tasks[t].ev = "file" /\ tasks[t].arg = "data.txt"
    /\ tasks[t].pc = "await_unsupported" /\ Len(tasks[t].histBefore) = 2

\* a is an initial segment of b
IsPrefix(a, b) == Len(a) <= Len(b) /\ SubSeq(b, 1, Len(a)) = a

\* the step enters the /start or the /reset handler of user u
ClearedBy(u) ==
  \E t \in Tasks :
    /\ tasks[t].pc \in {"idle", "done"}
    /\ tasks'[t].pc \in {"await_greeting", "await_confirm"}
    /\ tasks'[t].user = u

\* the step of task t makes an attempt, which sends a request
Attempts(t) == tasks[t].pc = "attempt" /\ tasks'[t] # tasks[t]

\* C11: a user's history only grows at its end: in every step that is not
\* that user's /start or /reset the history before the step is a prefix of
\* the history after it; and an attempt sends the records in the order in
\* which they were inserted, i.e. as the history stands.
C11_AppendOnly ==
  [][/\ \A u \in Users : ~ClearedBy(u) => IsPrefix(Hist(u), Hist(u)')
     /\ \A t \in Tasks :
          Attempts(t) =>
            \A k \in 1 .. Len(Hist(tasks[t].user)) :
              tasks'[t].request[k + 1] = Hist(tasks[t].user)[k]]_vars

\* a reply is being delivered for a history that grew to four records, all
\* of which but the reply were sent
C11_Witness ==
  \E t \in Tasks :
    /\ tasks[t].pc = "await_chunk"
    /\ Len(Hist(tasks[t].user)) = 4
    /\ Len(tasks[t].request) = 4

\* the user record the file handler appends
FileUserRecord(task) == Record("user", FileUserContent(task.arg))

\* C15 as stated: in the file handler the user record is already in the
\* history when the in-progress notice is sent.
C15_RecordBeforeNotice ==
  \A t \in Tasks :
    tasks[t].ev = "file" /\ OfKind(tasks[t].sent, "notice") # {} =>
      IsPrefix(tasks[t].histBefore \o <<FileUserRecord(tasks[t])>>, Hist(tasks[t].user))

\* C15: in the file handler with a supported, readable file the order is:
\* the in-progress notice is sent, then the user record is appended, then the
\* caller is invoked, then the assistant record is appended, then the chunks
\* are sent.  While the notice is awaited the history is still the one the
\* handler found.
C15_NoticeBeforeRecord ==
  \A t \in Tasks :
    LET task == tasks[t]
        h == Hist(task.user)
        withUser == task.histBefore \o <<FileUserRecord(task)>>
    IN task.ev = "file" =>
         /\ task.pc \in {"await_get_file", "await_download"} =>
              task.sent = <<>> /\ h = task.histBefore
         /\ task.pc = "await_notice" =>
              task.sent = <<Msg("notice", FileNotice)>> /\ h = task.histBefore
         /\ task.pc = "attempt" =>
              task.sent = <<Msg("notice", FileNotice)>> /\ h = withUser
         /\ task.pc = "await_chunk" =>
              /\ h = withUser \o <<Record("assistant", task.reply)>>
              /\ task.sent[1] = Msg("notice", FileNotice)
              /\ OfKind(task.sent, "chunk") = 2 .. Len(task.sent)
              /\ Len(task.sent) >= 2

\* the file handler delivers the second chunk of a long reply
C15_Witness ==
  \E t \in Tasks :
    /\ tasks[t].ev = "file" /\ tasks[t].pc = "await_chunk"
    /\ Len(tasks[t].sent) = 3

\* the record with which a handler extends the history before its call
OwnRecord(task) == Record("user", UserContent(task))

\* C16: every attempt is sent the system instruction first and then the whole
\* history in order (the history the handler found plus its own user record);
\* the system instruction is never stored, every stored record has the role
\* user or assistant; and the call itself leaves the history as it was
\* passed, between attempts and when it raises.
C16_RequestIsSystemPlusHistory ==
  /\ \A t \in Tasks :
       tasks[t].request # <<>> =>
         /\ tasks[t].request[1] = [role |-> "system", content |-> SYSTEM_PROMPT]
         /\ Tail(tasks[t].request) = tasks[t].histBefore \o <<OwnRecord(tasks[t])>>
  /\ \A t \in Tasks :
       tasks[t].pc = "attempt" \/ (tasks[t].pc = "await_error" /\ tasks[t].result = "raised") =>
         Hist(tasks[t].user) = tasks[t].histBefore \o <<OwnRecord(tasks[t])>>
  /\ \A u \in DOMAIN user_conversations :
       \A k \in 1 .. Len(user_conversations[u]) :
         user_conversations[u][k].role \in {"user", "assistant"}

\* a second attempt is about to be made with a history of three records
C16_Witness ==
  \E t \in Tasks :
    /\ tasks[t].pc = "attempt" /\ tasks[t].attempt >= 1
    /\ Len(tasks[t].request) = 4

\* C17: the cursor is always an index into MODELS.
C17_CursorInRange == current_model_index \in 0 .. NumModels - 1

\* the attempt on the last model of the list failed and the cursor wrapped
C17_Witness == lastFailed = NumModels - 1 /\ current_model_index = 0

\* C18: handlers running one at a time, every assistant record directly
\* follows a user record.
C18_AssistantFollowsUser ==
  \A u \in DOMAIN user_conversations :
    \A k \in 1 .. Len(user_conversations[u]) :
      user_conversations[u][k].role = "assistant" =>
        k > 1 /\ user_conversations[u][k - 1].role = "user"

\* an unanswered question, then a question and its answer
C18_Witness ==
  \E u \in DOMAIN user_conversations :
    /\ Len(user_conversations[u]) = 3
    /\ user_conversations[u][2].role = "user"
    /\ user_conversations[u][3].role = "assistant"

\* C20: a step of a handler that runs for user u leaves the history of every
\* other user as it was (and creates none); the request of an attempt for u
\* is the system instruction followed by u's own history and nothing else.
C20_OtherUsersUntouched ==
  [][\A t \in Tasks :
       tasks'[t] # tasks[t] =>
         /\ \A v \in Users \ {tasks'[t].user} :
              /\ v \in DOMAIN user_conversations' <=> v \in DOMAIN user_conversations
              /\ Hist(v)' = Hist(v)
         /\ Attempts(t) =>
              Len(tasks'[t].request) = 1 + Len(Hist(tasks[t].user))]_vars

\* an attempt was made for one user while another user has a history of
\* their own
C20_Witness ==
  \E t \in Tasks, v \in Users :
    /\ tasks[t].pc = "attempt" /\ tasks[t].attempt >= 1
    /\ v # tasks[t].user
    /\ Hist(v) # <<>> /\ Hist(v) # Hist(tasks[t].user)

\* C14: when the platform token or the completion key is not set (or is
\* empty), main() ends in an error before a handler is registered and before
\* polling starts, and no update is ever dispatched: no handler is ever
\* entered and no history is ever created.
C14_NoStartWithoutSecrets ==
  (~Truthy(env.TELEGRAM_BOT_TOKEN) \/ ~Truthy(env.OPENROUTER_API_KEY)) =>
    /\ app.pc \in {"main", "failed"}
    /\ app.pc = "failed" => app.error # ""
    /\ app.handlers = {}
    /\ \A t \in Tasks : tasks[t] = IdleTask
    /\ user_conversations = << >>

\* main() has raised because the completion key is not set, the token is
C14_Witness ==
  /\ app.pc = "failed"
  /\ env.TELEGRAM_BOT_TOKEN = "secret" /\ env.OPENROUTER_API_KEY = NoValue

\* the texts of the chunk messages among msgs, in the order sent
ChunkTexts(msgs) ==
  LET cs == SelectSeq(msgs, LAMBDA m : m.kind = "chunk")
  IN [k \in 1 .. Len(cs) |-> cs[k].text]

RECURSIVE Concat(_)
Concat(ss) == IF ss = <<>> THEN "" ELSE Head(ss) \o Concat(Tail(ss))

\* the content of the last record of a history
LastContent(h) == h[Len(h)].content

\* C12: a reply of length L is sent as ceil(L / 4096) messages, each of at
\* most 4096 characters, which put together in the order sent are the reply;
\* an empty reply is sent as no message at all: the handler returns as soon
\* as the reply is stored.
C12_ChunksCoverReply ==
  [][\A t \in Tasks :
       /\ tasks[t].pc = "attempt" /\ tasks'[t].result = "ok" =>
            LET r == LastContent(Hist(tasks[t].user)')
            IN /\ Len(r) = 0 <=> tasks'[t].pc = "done"
               /\ Len(r) > 0 => tasks'[t].reply = r /\ tasks'[t].pc = "await_chunk"
       /\ tasks[t].pc = "await_chunk" /\ tasks'[t].pc = "done" =>
            LET cs == ChunkTexts(tasks[t].sent)
                L == Len(tasks[t].reply)
            IN /\ Len(cs) = (L + ChunkSize - 1) \div ChunkSize
               /\ \A k \in 1 .. Len(cs) : Len(cs[k]) <= ChunkSize
               /\ Concat(cs) = tasks[t].reply]_vars

\* the third chunk of a reply of two full chunks and one character is being
\* sent, after an earlier empty reply was stored without any message
C12_Witness ==
  /\ \E t \in Tasks :
       /\ tasks[t].pc = "await_chunk" /\ tasks[t].i = 2 * ChunkSize
       /\ Len(ChunkTexts(tasks[t].sent)) = 3
  /\ \E u \in DOMAIN user_conversations :
       \E k \in 1 .. Len(user_conversations[u]) :
         user_conversations[u][k] = [role |-> "assistant", content |-> ""]

\* the positions of a history that hold the given record
At(h, rec) == {k \in 1 .. Len(h) : h[k] = rec}

\* C13: with two text handlers of one user in flight, the second message's
\* user record is in the history before the first message is answered: when
\* one of them makes its attempt while the other is suspended at its notice
\* (and no /start or /reset took the list from either), the history holds
\* both user records and the request that is sent holds them too, in the
\* places they have in the history.
C13_FirstRequestHoldsSecond ==
  [][\A t \in Tasks, s \in Tasks :
       ( /\ t # s /\ Attempts(t)
         /\ tasks[t].ev = "text" /\ tasks[s].ev = "text"
         /\ tasks[s].user = tasks[t].user
         /\ tasks[s].pc = "await_notice"
         /\ ~tasks[t].cleared /\ ~tasks[s].cleared ) =>
           LET h == Hist(tasks[t].user)
               sentNow == tasks'[t].request
           IN /\ Len(sentNow) = Len(h) + 1
              /\ \E i \in At(h, OwnRecord(tasks[t])), j \in At(h, OwnRecord(tasks[s])) :
                   i # j /\ sentNow[i + 1] = h[i] /\ sentNow[j + 1] = h[j]]_vars

\* the first question is answered: its request held the second question,
\* whose handler is still at its notice, and the history has the two user
\* records one after the other and then the first reply
C13_Witness ==
  \E t \in Tasks, s \in Tasks :
    /\ tasks[t].ev = "text" /\ tasks[t].arg = "q1" /\ tasks[t].pc = "await_chunk"
    /\ tasks[s].ev = "text" /\ tasks[s].arg = "q2" /\ tasks[s].pc = "await_notice"
    /\ tasks[s].user = tasks[t].user
    /\ tasks[t].request =
         <<[role |-> "system", content |-> SYSTEM_PROMPT],
           [role |-> "user", content |-> "q1"], [role |-> "user", content |-> "q2"]>>
    /\ Hist(tasks[t].user) =
         <<[role |-> "user", content |-> "q1"], [role |-> "user", content |-> "q2"],
           [role |-> "assistant", content |-> tasks[t].reply]>>

\* the first record of h, if there is one, has the role user
UserFirst(h) == h # <<>> => h[1].role = "user"

\* C19 as stated: for every interleaving the first record of every non-empty
\* history has the role user.
C19_FirstRecordIsUser ==
  \A u \in DOMAIN user_conversations : UserFirst(user_conversations[u])

\* C19: for every interleaving, a history comes to begin with a record that
\* is not a user record in one way only: a /start or /reset of the user ran
\* while a text handler of the user was suspended after it had appended its
\* user record, and that handler's reply is then appended to the emptied
\* history.  A suspended file handler never does this.
C19_FirstRecordUserUnlessCleared ==
  [][\A u \in Users :
       UserFirst(Hist(u)) /\ ~UserFirst(Hist(u)') =>
         /\ Hist(u) = <<>> /\ Len(Hist(u)') = 1 /\ Hist(u)'[1].role = "assistant"
         /\ \E t \in Tasks :
              /\ tasks[t].user = u /\ tasks[t].ev = "text"
              /\ tasks[t].pc = "attempt" /\ tasks[t].cleared
              /\ tasks'[t] # tasks[t]]_vars

\* the reply of a text handler whose list was emptied under it is the first
\* record of the history
C19_Witness ==
  \E t \in Tasks :
    /\ tasks[t].ev = "text" /\ tasks[t].cleared /\ tasks[t].pc = "await_chunk"
    /\ Hist(tasks[t].user) = <<[role |-> "assistant", content |-> tasks[t].reply]>>

====
